---- MODULE Spec2Model ----
(***************************************************************************)
(* Model of the <sitn-product-search> custom element                       *)
(* (src/src/sitn-product-search.ts): the debounced search, the abortable   *)
(* first-page request, the scroll-driven continuation request and the      *)
(* list render with its sentinel observer.                                 *)
(*                                                                         *)
(* The element runs on the browser's event loop: every handler below is    *)
(* one task (or one promise continuation) and runs to completion, so each  *)
(* is one atomic action.  An `await fetch(...)` splits its function in     *)
(* two: the part up to the request (inside the calling handler's action)   *)
(* and the part after the response (FetchProductsDone / FetchMoreDone).    *)
(*                                                                         *)
(* Platform behaviour taken as given: a fetch whose AbortSignal has fired  *)
(* rejects with AbortError; a timeout that was cleared never fires; an     *)
(* IntersectionObserver reports an intersection only for a target that is  *)
(* in the tree of an element that is in the document.                      *)
(*                                                                         *)
(* lastOp, lastTerm, curItems, curNext and the fields stale and           *)
(* issuedLen of a request are history: no handler reads them.              *)
(***************************************************************************)
EXTENDS Integers, Sequences, FiniteSets, Bags, TLC

\* ---------------------------------------------------------------- bounds
MaxInflight == 2      \* requests outstanding at once
MaxPageLen  == 1      \* results in a full page of the catalogue
MaxPages    == 3      \* full pages the accumulated list may hold

MaxProducts == MaxPages * MaxPageLen

\* ------------------------------------------------------------ value sets
Null == "null"

\* search terms the user can type; "" is what the clear button submits
Terms == {"", "a b"}

\* the `next` links the catalogue hands out (fully-qualified URLs)
NextUrls == {"product/?page=2", "product/?page=3"}

BaseUrl == "https://sitn.ne.ch/geoshop2_api/product/"

\* encodeURIComponent on the modelled terms: a space becomes %20
EncodeURIComponent(term) ==
    CASE term = "a b" -> "a%20b"
      [] OTHER        -> term

\* the URL fetchProducts builds: the bare endpoint for a falsy term
SearchUrl(term) ==
    IF term = "" THEN <<BaseUrl>>
    ELSE <<BaseUrl, "?search=", EncodeURIComponent(term)>>

\* the catalogue's page behind a URL: n results, each identified by the URL
\* it came from and its position in that page
PageResults(url, n) == [i \in 1..n |-> [from |-> url, idx |-> i]]

\* an ApiResponse body as the code reads it: results (no match, or a full
\* page) and next
\* the `next` links the page behind a URL can carry: the catalogue pages
\* forward, a first page links to page 2, page 2 to page 3, page 3 is the last
NextLinks(url) ==
    CASE url = <<"product/?page=2">> -> {"product/?page=3"}
      [] url = <<"product/?page=3">> -> {}
      [] OTHER                       -> {"product/?page=2"}

ApiResponse(url) ==
    { [results |-> PageResults(url, n), next |-> nx] :
        n \in {0, MaxPageLen}, nx \in {Null} \cup NextLinks(url) }

\* curNext while no page of the search started last has been applied
NoPage == "none"

\* no body read
NoData == [results |-> <<>>, next |-> Null]

\* how a request can end when its signal was not fired: a parsed body, or a
\* transport failure / non-OK status / malformed body (all reach the catch)
Failures == {"TypeError", "NotOk", "SyntaxError"}

VARIABLES
    products,         \* this.products
    loading,          \* this.loading
    nextPage,         \* this.nextPage
    observer,         \* this.observer and what it is observing
    unreleased,       \* observers still connected that this.observer let go
    abortController,  \* this.abortController
    debounceTimer,    \* this.debounceTimer
    attached,         \* the element is in the document
    dom,              \* the shadow tree, as far as the code reads and writes it
    timers,           \* timeouts armed with window.setTimeout and not yet fired
    inflight,         \* requests issued with fetch() and not yet settled (a bag)
    lastOp,           \* history: the handler that ran last and what it did
    lastTerm,         \* history: the term of the last input since a timer fired
    curItems,         \* history: pages applied for the search started last
    curNext           \* history: the next of the last of those pages

vars == <<products, loading, nextPage, observer, unreleased, abortController,
          debounceTimer,
          attached, dom, timers, inflight, lastOp, lastTerm, curItems,
          curNext>>

\* ------------------------------------------------------------------ DOM
\* the shadow tree before connectedCallback: attachShadow only
EmptyDom ==
    [ready |-> FALSE, items |-> <<>>, sentinel |-> FALSE,
     loadingEl |-> FALSE, noResults |-> FALSE, suggested |-> FALSE]

\* render(): input, clear button and a dropdown holding "Chargement..."
RenderedDom ==
    [ready |-> TRUE, items |-> <<>>, sentinel |-> FALSE,
     loadingEl |-> TRUE, noResults |-> FALSE, suggested |-> FALSE]

\* an observer whose target left the tree keeps observing a detached node
TargetRemoved(obs) == IF obs = "observing" THEN "orphan" ELSE obs

\* updateLoadingState(): add or remove the loading indicator
UpdateLoadingState(ld, d) ==
    IF ~d.ready THEN d
    ELSE [d EXCEPT !.loadingEl = ld]

\* setupIntersectionObserver(sentinel): disconnect the old one, observe anew
SetupIntersectionObserver(obs) == "observing"

\* an observer is connected from observe() until disconnect()
Connected(obs) == obs \in {"observing", "orphan"}

\* the old observer replaced without disconnect(): it stays connected
LeftConnected_NoDisconnect(obs, n) == IF Connected(obs) THEN n + 1 ELSE n

\* setupIntersectionObserver, before the new observer is made: the observers
\* left connected once this.observer (obs) is replaced, n having been before
LeftConnected(obs, n) == n

\* updateList(): rebuild the dropdown from products / nextPage / loading
UpdateList(p, np, ld, d, obs, n) ==
    IF ~d.ready THEN [dom |-> d, observer |-> obs, unreleased |-> n]
    ELSE IF Len(p) > 0
         THEN [dom |-> [d EXCEPT !.items = p, !.suggested = TRUE,
                                 !.sentinel = (np # Null),
                                 !.noResults = FALSE, !.loadingEl = ld],
               observer |-> IF np # Null THEN SetupIntersectionObserver(obs)
                            ELSE TargetRemoved(obs),
               unreleased |-> IF np # Null THEN LeftConnected(obs, n) ELSE n]
         ELSE [dom |-> [d EXCEPT !.items = <<>>, !.sentinel = FALSE,
                                 !.suggested = IF ~ld THEN TRUE ELSE @,
                                 !.noResults = ~ld, !.loadingEl = ld],
               observer |-> TargetRemoved(obs),
               unreleased |-> n]

\* ------------------------------------------------------------- requests
NoReq ==
    [kind |-> "none", url |-> <<>>, ctl |-> FALSE, aborted |-> FALSE,
     stale |-> FALSE, issuedLen |-> 0]

\* history kept with each request: stale = a search was started after it
MarkStale(reqs) == BagOfAll(LAMBDA r : [r EXCEPT !.stale = TRUE], reqs)

\* abort() left out: the superseded request keeps running
Abort_Skipped(reqs) == reqs

\* this.abortController.abort(): fires the signal of the request that holds it
Abort(reqs) ==
    BagOfAll(LAMBDA r : IF r.ctl THEN [r EXCEPT !.aborted = TRUE] ELSE r, reqs)

\* this.abortController = new AbortController(): the old one is let go
NewAbortController(reqs) ==
    BagOfAll(LAMBDA r : [r EXCEPT !.ctl = FALSE], reqs)

\* fetch(): one more request outstanding
Issue(reqs, r) == reqs (+) SetToBag({r})

\* a request settles: it is outstanding no longer
Settle(reqs, r) == reqs (-) SetToBag({r})

\* a request as fetch() starts it; issuedLen is history (how many items
\* products held when a continuation was requested; nextPage then was url[1])
NewRequest(kind, url, ctl, p) ==
    [kind |-> kind, url |-> url, ctl |-> ctl, aborted |-> FALSE,
     stale |-> FALSE, issuedLen |-> Len(p)]

\* --------------------------------------------------------------- timers
\* this.debounceTimer before the first setTimeout (null, falsy like 0)
NoTimer == 0

\* clearTimeout left out: the earlier timer stays armed
ClearTimeout_Kept(ts, id) == ts

\* clearTimeout(id): a no-op for an id that already fired
ClearTimeout(ts, id) == {t \in ts : t.id # id}

\* window.setTimeout returns a positive id that no armed timer has (the
\* least one here: an id that has fired is as dead as one never handed out)
FreshTimerId(ts) ==
    CHOOSE n \in 1..(Cardinality(ts) + 1) :
        /\ \A t \in ts : t.id # n
        /\ \A m \in 1..(n - 1) : \E t \in ts : t.id = m

\* ----------------------------------------------------------------- Init
Init ==
    /\ products = <<>>
    /\ loading = FALSE
    /\ nextPage = Null
    /\ observer = Null
    /\ unreleased = 0
    /\ abortController = Null
    /\ debounceTimer = NoTimer
    /\ attached = FALSE
    /\ dom = EmptyDom
    /\ timers = {}
    /\ inflight = EmptyBag
    /\ lastOp = [op |-> "constructor", stale |-> FALSE, outcome |-> "none",
                 data |-> NoData, render |-> FALSE, issued |-> FALSE]
    /\ lastTerm = Null
    /\ curItems = <<>>
    /\ curNext = NoPage

\* the record every handler leaves in lastOp: which handler ran, for a
\* settled request whether a search had started since it was issued, how it
\* ended and the body it brought, whether updateList ran, and whether the
\* handler called fetch()
Op(name, req, outcome, data, render, issued) ==
    [op |-> name, stale |-> req.stale, outcome |-> outcome, data |-> data,
     render |-> render, issued |-> issued]

\* ------------------------------------------------------------- handlers
\* handleSearch(term): re-arm the 300 ms timer
HandleSearch(term) ==
    LET cleared == IF debounceTimer # NoTimer
                   THEN ClearTimeout(timers, debounceTimer)
                   ELSE timers
        id == FreshTimerId(cleared)
        wasArmed == \E t \in timers : t.id = debounceTimer
    IN  /\ timers' = cleared \cup {[id |-> id, term |-> term]}
        /\ debounceTimer' = id
        /\ lastTerm' = term
        /\ lastOp' = Op("handleSearch", NoReq,
                        IF wasArmed THEN "rearmed" ELSE "armed",
                        NoData, FALSE, FALSE)
        /\ UNCHANGED <<products, loading, nextPage, observer, unreleased,
                       abortController, attached, dom, inflight, curItems,
                       curNext>>

\* the input listener of setupEventListeners
InputEvent(value) ==
    /\ attached
    /\ dom.ready
    /\ HandleSearch(value)

\* the clear button's click listener: input.value = "", handleSearch("")
ClearClick ==
    /\ attached
    /\ dom.ready
    /\ HandleSearch("")

\* fetchProducts(term) up to its await, entered with products = p,
\* nextPage = np and the shadow tree d
FetchProducts(term, p, np, d) ==
    LET aborted == IF abortController # Null THEN Abort(inflight) ELSE inflight
        req == NewRequest("fresh", SearchUrl(term), TRUE, <<>>)
    IN  /\ BagCardinality(inflight) < MaxInflight
        /\ abortController' = "controller"
        /\ inflight' = Issue(NewAbortController(MarkStale(aborted)), req)
        /\ loading' = TRUE
        /\ dom' = UpdateLoadingState(TRUE, d)
        /\ products' = p
        /\ nextPage' = np
        /\ curItems' = <<>>
        /\ curNext' = NoPage

\* connectedCallback(): render(), setupEventListeners(), fetchProducts()
ConnectedCallback ==
    /\ ~attached
    /\ attached' = TRUE
    /\ observer' = TargetRemoved(observer)
    /\ FetchProducts("", products, nextPage, RenderedDom)
    /\ lastOp' = Op("connected", NoReq, "none", NoData, FALSE, TRUE)
    /\ UNCHANGED <<unreleased, debounceTimer, timers, lastTerm>>

\* disconnectedCallback(): only the observer is released
DisconnectedCallback ==
    /\ attached
    /\ attached' = FALSE
    /\ observer' = IF observer # Null THEN "disconnected" ELSE observer
    /\ lastOp' = Op("disconnected", NoReq, "none", NoData, FALSE, FALSE)
    /\ UNCHANGED <<products, loading, nextPage, unreleased, abortController,
                   debounceTimer, dom, timers, inflight, lastTerm, curItems,
                   curNext>>

\* the setTimeout callback of handleSearch, 300 ms after it was armed
DebounceFire(t) ==
    /\ t \in timers
    /\ timers' = timers \ {t}
    /\ FetchProducts(t.term, <<>>, Null, dom)
    /\ lastOp' = Op("debounce", NoReq, "none", NoData, FALSE, TRUE)
    /\ lastTerm' = Null
    /\ UNCHANGED <<observer, unreleased, debounceTimer, attached>>

\* the AbortError test left out: an abort is handled like any other error
FetchProductsAborted_AsError(r) ==
    LET ui == UpdateList(products, nextPage, FALSE, dom, observer, unreleased)
    IN  /\ loading' = FALSE
        /\ dom' = ui.dom
        /\ observer' = ui.observer
        /\ unreleased' = ui.unreleased
        /\ lastOp' = Op("fetchDone", r, "AbortError", NoData, TRUE, FALSE)
        /\ UNCHANGED <<products, nextPage, curItems, curNext>>

\* fetchProducts, catch: error.name === "AbortError" -> return
FetchProductsAborted(r) ==
    /\ lastOp' = Op("fetchDone", r, "AbortError", NoData, FALSE, FALSE)
    /\ UNCHANGED <<products, nextPage, loading, dom, observer, unreleased,
                   curItems, curNext>>

\* fetchProducts, after response.json(): take the page and render
FetchProductsSucceeded(r, data) ==
    LET ui == UpdateList(data.results, data.next, FALSE, dom, observer, unreleased)
    IN  /\ products' = data.results
        /\ nextPage' = data.next
        /\ loading' = FALSE
        /\ dom' = ui.dom
        /\ observer' = ui.observer
        /\ unreleased' = ui.unreleased
        /\ curItems' = IF r.stale THEN curItems ELSE data.results
        /\ curNext' = IF r.stale THEN curNext ELSE data.next
        /\ lastOp' = Op("fetchDone", r, "ok", data, TRUE, FALSE)

\* the catch block without its loading = false
FetchProductsFailed_StaysLoading(r) ==
    LET ui == UpdateList(products, nextPage, loading, dom, observer, unreleased)
    IN  /\ dom' = ui.dom
        /\ observer' = ui.observer
        /\ unreleased' = ui.unreleased
        /\ lastOp' = Op("fetchDone", r, "error", NoData, TRUE, FALSE)
        /\ UNCHANGED <<products, nextPage, loading, curItems, curNext>>

\* fetchProducts, catch: any other error -> loading = false, updateList()
FetchProductsFailed(r) ==
    LET ui == UpdateList(products, nextPage, FALSE, dom, observer, unreleased)
    IN  /\ loading' = FALSE
        /\ dom' = ui.dom
        /\ observer' = ui.observer
        /\ unreleased' = ui.unreleased
        /\ lastOp' = Op("fetchDone", r, "error", NoData, TRUE, FALSE)
        /\ UNCHANGED <<products, nextPage, curItems, curNext>>

\* fetchProducts after its awaits: the request r has settled.
\* A request whose signal was fired rejects with AbortError; any other one
\* yields a parsed body or throws (transport, status or body).
FetchProductsDone(r) ==
    /\ BagIn(r, inflight)
    /\ r.kind = "fresh"
    /\ inflight' = Settle(inflight, r)
    /\ UNCHANGED <<abortController, debounceTimer, attached, timers, lastTerm>>
    /\ IF r.aborted
       THEN FetchProductsAborted(r)
       ELSE \/ \E data \in ApiResponse(r.url) : FetchProductsSucceeded(r, data)
            \/ \E error \in Failures : FetchProductsFailed(r)

\* the test without its loading half
MayLoadMore_IgnoresLoading == nextPage # Null

\* the test both the observer callback and fetchMoreProducts make
MayLoadMore == nextPage # Null /\ ~loading

\* fetchMoreProducts() up to its await
FetchMoreProducts ==
    IF ~MayLoadMore
    THEN /\ lastOp' = Op("sentinel", NoReq, "none", NoData, FALSE, FALSE)
         /\ UNCHANGED <<loading, dom, inflight>>
    ELSE /\ BagCardinality(inflight) < MaxInflight
         /\ loading' = TRUE
         /\ dom' = UpdateLoadingState(TRUE, dom)
         /\ inflight' = Issue(inflight,
                NewRequest("more", <<nextPage>>, FALSE, products))
         /\ lastOp' = Op("sentinel", NoReq, "none", NoData, FALSE, TRUE)

\* the IntersectionObserver callback for the sentinel of the last render
SentinelVisible(isIntersecting) ==
    /\ attached
    /\ observer = "observing"
    /\ IF isIntersecting /\ MayLoadMore
       THEN FetchMoreProducts
       ELSE /\ lastOp' = Op("sentinel", NoReq, "none", NoData, FALSE, FALSE)
            /\ UNCHANGED <<loading, dom, inflight>>
    /\ UNCHANGED <<products, nextPage, observer, unreleased, abortController,
                   debounceTimer, attached, timers, lastTerm, curItems,
                   curNext>>

\* the new page put in front: [...data.results, ...this.products]
AppendResults_Prepends(p, results) == results \o p

\* [...this.products, ...data.results]
AppendResults(p, results) == p \o results

\* fetchMoreProducts, after response.json(): append the page and render
FetchMoreSucceeded(r, data) ==
    LET all == AppendResults(products, data.results)
        ui == UpdateList(all, data.next, FALSE, dom, observer, unreleased)
    IN  /\ Len(products) + Len(data.results) <= MaxProducts
        /\ products' = all
        /\ nextPage' = data.next
        /\ loading' = FALSE
        /\ dom' = ui.dom
        /\ observer' = ui.observer
        /\ unreleased' = ui.unreleased
        /\ curItems' = IF r.stale THEN curItems ELSE curItems \o data.results
        /\ curNext' = IF r.stale THEN curNext ELSE data.next
        /\ lastOp' = Op("moreDone", r, "ok", data, TRUE, FALSE)

\* the catch block clearing the list as well
FetchMoreFailed_Clears(r) ==
    LET ui == UpdateList(<<>>, Null, FALSE, dom, observer, unreleased)
    IN  /\ loading' = FALSE
        /\ products' = <<>>
        /\ nextPage' = Null
        /\ dom' = ui.dom
        /\ observer' = ui.observer
        /\ unreleased' = ui.unreleased
        /\ lastOp' = Op("moreDone", r, "error", NoData, TRUE, FALSE)
        /\ UNCHANGED <<curItems, curNext>>

\* the catch block without its loading = false
FetchMoreFailed_StaysLoading(r) ==
    LET ui == UpdateList(products, nextPage, loading, dom, observer, unreleased)
    IN  /\ dom' = ui.dom
        /\ observer' = ui.observer
        /\ unreleased' = ui.unreleased
        /\ lastOp' = Op("moreDone", r, "error", NoData, TRUE, FALSE)
        /\ UNCHANGED <<products, nextPage, loading, curItems, curNext>>

\* fetchMoreProducts, catch: loading = false, updateList()
FetchMoreFailed(r) ==
    LET ui == UpdateList(products, nextPage, FALSE, dom, observer, unreleased)
    IN  /\ loading' = FALSE
        /\ dom' = ui.dom
        /\ observer' = ui.observer
        /\ unreleased' = ui.unreleased
        /\ lastOp' = Op("moreDone", r, "error", NoData, TRUE, FALSE)
        /\ UNCHANGED <<products, nextPage, curItems, curNext>>

\* fetchMoreProducts after its awaits: the request r has settled (it was
\* issued without a signal, so it never ends in AbortError)
FetchMoreDone(r) ==
    /\ BagIn(r, inflight)
    /\ r.kind = "more"
    /\ inflight' = Settle(inflight, r)
    /\ UNCHANGED <<abortController, debounceTimer, attached, timers, lastTerm>>
    /\ \/ \E data \in ApiResponse(r.url) : FetchMoreSucceeded(r, data)
       \/ \E error \in Failures : FetchMoreFailed(r)

Next ==
    \/ \E value \in Terms : InputEvent(value)
    \/ ClearClick
    \/ ConnectedCallback
    \/ DisconnectedCallback
    \/ \E t \in timers : DebounceFire(t)
    \/ \E r \in BagToSet(inflight) : FetchProductsDone(r)
    \/ \E isIntersecting \in BOOLEAN : SentinelVisible(isIntersecting)
    \/ \E r \in BagToSet(inflight) : FetchMoreDone(r)

Spec == Init /\ [][Next]_vars

\* Scheduling: the event loop runs an armed timer's callback unless it was
\* cleared, and every issued request settles (the fetch promise resolves or
\* rejects) and its continuation after the await then runs. Input, lifecycle
\* and intersection events are under no obligation to happen.
FairSpec ==
    /\ Spec
    /\ WF_vars(\E t \in timers : DebounceFire(t))
    /\ WF_vars(\E r \in BagToSet(inflight) : FetchProductsDone(r))
    /\ WF_vars(\E r \in BagToSet(inflight) : FetchMoreDone(r))

\* ---------------------------------------------------------------- claims
\* the continuation requests among reqs
Continuations(reqs) ==
    [r \in {x \in BagToSet(reqs) : x.kind = "more"} |-> CopiesIn(r, reqs)]

\* in a step that settles a request: the request it settles
Settled == CHOOSE r \in BagToSet(inflight) : inflight' = Settle(inflight, r)

\* C1: once a newer fresh search has been started, the completion of an
\* earlier fresh-search request changes none of products, nextPage and loading
\* and renders nothing (the shadow tree and the observer stay as they are).
C1_StaleSearchIgnored ==
    [][(lastOp'.op = "fetchDone" /\ lastOp'.stale)
        => /\ UNCHANGED <<products, nextPage, loading, dom, observer>>
           /\ ~lastOp'.render]_vars

\* C1 witness: a superseded fresh-search request has settled while the search
\* that superseded it is still outstanding.
C1_Witness ==
    /\ lastOp.op = "fetchDone"
    /\ lastOp.stale
    /\ \E r \in BagToSet(inflight) : r.kind = "fresh" /\ ~r.stale
    /\ loading

\* C2: while inputs keep arriving before the timer fires, exactly one timer is
\* armed and it carries the last term; when it fires no timer remains and
\* exactly one request is issued, for the URL of that last term.
C2_DebounceIssuesLastTerm ==
    /\ [](IF lastTerm = Null
          THEN timers = {}
          ELSE timers = {[id |-> debounceTimer, term |-> lastTerm]})
    /\ [][lastOp'.op = "debounce"
          => /\ timers' = {}
             /\ BagCardinality(inflight') = BagCardinality(inflight) + 1
             /\ \E r \in BagToSet(inflight') :
                   /\ r.ctl /\ ~r.stale /\ ~r.aborted
                   /\ r.url = SearchUrl(lastTerm)]_vars

\* C2 witness: an input arrived while the previous input's timer was still
\* armed, and one timer is armed, for the new term.
C2_Witness ==
    /\ lastOp.op = "handleSearch"
    /\ lastOp.outcome = "rearmed"
    /\ timers = {[id |-> debounceTimer, term |-> "a b"]}

\* C3: at most one continuation request is in flight in every reachable state.
C3_OneContinuationInFlight ==
    BagCardinality(Continuations(inflight)) <= 1

\* C4: products is exactly the pages applied for the most recently started
\* search, in order: its first page followed by its continuation pages.
C4_ProductsAreCurrentPages ==
    products = curItems

\* C5: the completion of a continuation request issued before the latest
\* search started leaves products, nextPage and loading unchanged and renders
\* nothing.
C5_StaleContinuationIgnored ==
    [][(lastOp'.op = "moreDone" /\ lastOp'.stale)
        => /\ UNCHANGED <<products, nextPage, loading, dom, observer>>
           /\ ~lastOp'.render]_vars

\* C6: a continuation request is issued only from a state with nextPage
\* non-null and loading false; a sentinel event in any other state issues
\* nothing and leaves products, nextPage and loading as they are.
C6_LoadMoreGuard ==
    [][/\ (BagCardinality(Continuations(inflight'))
             > BagCardinality(Continuations(inflight)))
          => (nextPage # Null /\ ~loading)
       /\ (lastOp'.op = "sentinel" /\ (nextPage = Null \/ loading))
          => /\ UNCHANGED <<products, nextPage, loading, inflight>>
             /\ ~lastOp'.issued]_vars

\* C6 witness: the sentinel became visible while a request was loading, and
\* nothing was issued.
C6_Witness ==
    /\ lastOp.op = "sentinel"
    /\ ~lastOp.issued
    /\ loading
    /\ nextPage # Null
    /\ BagCardinality(inflight) = 1

\* C7: once the element is detached nothing runs any more: no handler issues
\* a request, changes products, nextPage or loading, or renders.
C7_NothingAfterDetach ==
    [][(~attached /\ ~attached')
        => /\ UNCHANGED <<products, nextPage, loading, dom>>
           /\ BagCardinality(inflight') <= BagCardinality(inflight)
           /\ ~lastOp'.issued
           /\ ~lastOp'.render]_vars

\* C8: after a fresh-search request of the current search failed with an
\* error other than AbortError, loading is false, products is empty and the
\* list was rendered.
C8_SearchFailureClears ==
    (lastOp.op = "fetchDone" /\ lastOp.outcome = "error" /\ ~lastOp.stale)
        => (loading = FALSE /\ products = <<>> /\ lastOp.render)

C10_ContinuationAppends ==
    [][(lastOp'.op = "moreDone" /\ lastOp'.outcome = "ok")
        => /\ lastOp'.data \in ApiResponse(Settled.url)
           /\ products' = products \o lastOp'.data.results
           /\ nextPage' = lastOp'.data.next]_vars

\* C10 witness: a non-empty page was appended to a non-empty list.
C10_Witness ==
    /\ lastOp.op = "moreDone"
    /\ lastOp.outcome = "ok"
    /\ Len(lastOp.data.results) > 0
    /\ Len(products) > Len(lastOp.data.results)
    /\ products[1].from # products[Len(products)].from

\* C11: a fresh-search request that ends in AbortError renders nothing and
\* leaves products, nextPage and loading (and the shadow tree) as they were.
C11_AbortIsSilent ==
    [][(lastOp'.op = "fetchDone" /\ lastOp'.outcome = "AbortError")
        => /\ products' = products
           /\ nextPage' = nextPage
           /\ loading' = loading
           /\ dom' = dom
           /\ observer' = observer
           /\ lastOp'.render = FALSE]_vars

\* C11 witness: an aborted request has settled after the search that aborted
\* it had already rendered its own page, and that page is still what is shown.
C11_Witness ==
    /\ lastOp.op = "fetchDone"
    /\ lastOp.outcome = "AbortError"
    /\ ~loading
    /\ Len(products) > 0
    /\ dom.items = products

\* C12: while the last page applied for the current search is one with
\* next = null, nextPage is null and no sentinel event issues a continuation
\* request.
C12_NoContinuationAfterLastPage ==
    /\ [](curNext = Null => nextPage = Null)
    /\ [][(curNext = Null /\ lastOp'.op = "sentinel")
            => (~lastOp'.issued /\ inflight' = inflight)]_vars

\* C13: every start of a search (timer expiry, first or repeated attach)
\* leaves products empty, nextPage null and loading true, with the signal of
\* every earlier fresh-search request still outstanding fired.
C13_SearchStartResets ==
    lastOp.op \in {"debounce", "connected"}
        => /\ products = <<>>
           /\ nextPage = Null
           /\ loading = TRUE
           /\ \A r \in BagToSet(inflight) :
                 (r.kind = "fresh" /\ r.stale) => r.aborted

\* the fresh-search requests among reqs whose signal has not been fired
LiveSearches(reqs) ==
    [r \in {x \in BagToSet(reqs) : x.kind = "fresh" /\ ~x.aborted}
        |-> CopiesIn(r, reqs)]

\* C14: at most one fresh-search request whose signal has not been fired is
\* outstanding, and it is the one started last: every earlier one still
\* outstanding has been aborted.
C14_OneLiveSearch ==
    /\ BagCardinality(LiveSearches(inflight)) <= 1
    /\ \A r \in BagToSet(inflight) :
          (r.kind = "fresh" /\ r.stale) => r.aborted

\* C14 witness: two fresh-search requests are outstanding, the earlier one
\* aborted.
C14_Witness ==
    /\ BagCardinality(LiveSearches(inflight)) = 1
    /\ \E r \in BagToSet(inflight) : r.kind = "fresh" /\ r.aborted
    /\ lastOp.op = "debounce"

\* C15: after every list render, if nextPage is non-null an observer is
\* observing the sentinel of that render, and if nextPage is null no observer
\* is left connected (the earlier observation has been released).
C15_RenderSetsObservation ==
    lastOp.render
        => IF nextPage # Null
           THEN observer = "observing" /\ dom.sentinel
           ELSE ~Connected(observer) /\ unreleased = 0

\* the observers that are connected: this.observer if it is, and those let go
\* without disconnect()
LiveObservers == unreleased + (IF Connected(observer) THEN 1 ELSE 0)

\* C16: at most one observer is connected in every reachable state: whenever
\* a new one starts observing, the one before it has been disconnected.
C16_OneLiveObserver ==
    LiveObservers <= 1 /\ unreleased = 0

\* C16 witness: a render re-attached the observer while the observer of the
\* render before it was still observing.
C16_Witness ==
    /\ lastOp.op = "moreDone"
    /\ lastOp.outcome = "ok"
    /\ ~lastOp.stale
    /\ observer = "observing"
    /\ dom.sentinel
    /\ attached

\* the requests among reqs whose signal has not been fired
LiveRequests(reqs) == {r \in BagToSet(reqs) : ~r.aborted}

\* C18: whenever a request whose signal has not been fired is outstanding,
\* loading is true.
C18_OutstandingImpliesLoading ==
    LiveRequests(inflight) # {} => loading

\* C19: whenever loading is true, a request whose signal has not been fired
\* is outstanding; in particular an aborted fresh-search request is never the
\* only thing in flight while loading is true.
C19_LoadingImpliesOutstanding ==
    loading => LiveRequests(inflight) # {}

\* C19 witness: loading is true with an aborted fresh-search request still
\* outstanding beside the search that replaced it.
C19_Witness ==
    /\ loading
    /\ \E r \in BagToSet(inflight) : r.kind = "fresh" /\ r.aborted
    /\ \E r \in BagToSet(inflight) : r.kind = "fresh" /\ ~r.aborted /\ r.ctl
    /\ timers = {}

\* the steps that are neither an input, a lifecycle nor a sentinel event: a
\* timer callback or the completion of a request
QuietOps == {"debounce", "fetchDone", "moreDone"}

\* C17: if from some point on no input, lifecycle or sentinel event occurs
\* (and, by FairSpec, armed timers fire and issued requests complete), then
\* loading eventually is false and stays false.
C17_EventuallyIdle ==
    <>[][lastOp'.op \in QuietOps]_vars => <>[](~loading)

\* C17 witness: a request has failed, nothing is armed or outstanding any
\* more, and loading is false.
C17_Witness ==
    /\ ~loading
    /\ inflight = EmptyBag
    /\ timers = {}
    /\ lastOp.outcome = "error"
    /\ lastOp.op \in {"fetchDone", "moreDone"}

\* C20: no continuation page is appended to products more than once: a result
\* of the page behind a cursor occurs at most once in products.
C20_NoPageTwice ==
    \A i, j \in 1..Len(products) :
        (i # j /\ products[i].from[1] \in NextUrls)
            => products[i] # products[j]

====
